---- MODULE Spec2Model ----
(***************************************************************************)
(* Retrieval-augmented chat pipeline of ResponsiaTax: the chunker          *)
(* (RagService.chunkText), the chunk store and hybrid search               *)
(* (RagService.chunkDocument / search / searchPostgres, AzureSearchService)*)
(* and the chat turn protocol (LlmController.chat / chatStream over        *)
(* LlmService).                                                            *)
(***************************************************************************)
EXTENDS Integers, Sequences, FiniteSets, TLC

VARIABLES
    \* ---- RagService.chunkText: one call, observed loop iteration by iteration
    text,        \* the argument `text`
    maxChars,    \* the argument `maxChars`
    overlap,     \* the argument `overlap`
    cphase,      \* "call" | "loop" | "done"
    normalized,  \* const normalized
    pos,         \* let pos
    chunks,      \* const chunks (array being built); the return value once done
    \* ---- database and external index
    documents,        \* table documents: set of [id, dossier_id]
    chunkRows,        \* table document_chunks: set of rows
    azureIndex,       \* documents held by the Azure AI Search index
    azureConfigured,  \* azure_search_endpoint and azure_search_key are set
    \* ---- RagService.search: one call
    sQuery,           \* argument query
    sDossier,         \* argument dossierId
    sTopK,            \* argument topK
    sDocIds,          \* argument documentIds: [given |-> BOOLEAN, ids |-> set]
    spc,              \* control position of the call
    sQueried,         \* search stages that were sent a query
    sAzureOutcome,    \* "none" | "ok" | "fail": how azureSearch.search ended
    sAzureRes,        \* what azureSearch.search returned
    ftsRank,          \* ts_rank_cd Postgres computed per chunk id (0: no @@ match)
    trgmSim,          \* similarity() Postgres computed per chunk id, in hundredths
    sPrimary,         \* fullTextResults
    sFallback,        \* trigramResults
    sResult,          \* the returned list
    sError,           \* TRUE when the call rejected
    \* ---- RagService.chunkDocument runs and their observers
    cd,               \* per request: [pc, documentId, ocrText, oldIds] of its
                      \* chunkDocument call, the endpoint it came in by (via),
                      \* the HTTP response sent, whether chunkDocument rejected
    cdCalls,          \* number of chunkDocument calls made so far
    nextId,           \* next value of gen_random_uuid()
    azurePending,     \* fire-and-forget calls to the index not yet completed
    seen,             \* what the last reader query saw of one document
    \* ---- chat: LlmController.chat / chatStream, LlmService
    messages,         \* table llm_messages in created_at order
    responseText,     \* questions.response_text per question
    settings,         \* keys of table settings that hold a value
    turn,             \* per request: the state of one chat / chatStream call
    turnsStarted,     \* number of chat requests received so far
    clears            \* number of DELETE .../messages requests served so far

chunkVars == <<text, maxChars, overlap, cphase, normalized, pos, chunks>>

dbVars == <<documents, chunkRows, azureIndex, azureConfigured>>

searchVars == <<sQuery, sDossier, sTopK, sDocIds, spc, sQueried, sAzureOutcome,
                sAzureRes, ftsRank, trgmSim, sPrimary, sFallback, sResult, sError>>

storeVars == <<cd, cdCalls, nextId, azurePending, seen>>

chatVars == <<messages, responseText, settings, turn, turnsStarted, clears>>

vars == <<chunkVars, dbVars, searchVars, storeVars, chatVars>>

\* ------------------------------------------------------------------------
\* Helpers
\* ------------------------------------------------------------------------
Min(a, b) == IF a < b THEN a ELSE b

Max(a, b) == IF a > b THEN a ELSE b

\* ------------------------------------------------------------------------
\* Chunker (RagService.chunkText)
\* ------------------------------------------------------------------------
DefaultMaxChars == 1500

DefaultOverlap == 200

MinChunkLen == 50

\* JavaScript String.prototype.trim strips these (of the characters modelled)
IsWs(c) == c \in {" ", "\n", "\t", "\r"}

\* index of the first / last non-whitespace character of s within lo..hi, 0 if none
RECURSIVE FirstNonWs(_, _, _)
FirstNonWs(s, lo, hi) ==
    IF lo > hi THEN 0
    ELSE IF lo = hi THEN (IF IsWs(s[lo]) THEN 0 ELSE lo)
    ELSE LET mid == (lo + hi) \div 2
             l   == FirstNonWs(s, lo, mid)
         IN  IF l # 0 THEN l ELSE FirstNonWs(s, mid + 1, hi)

RECURSIVE LastNonWs(_, _, _)
LastNonWs(s, lo, hi) ==
    IF lo > hi THEN 0
    ELSE IF lo = hi THEN (IF IsWs(s[lo]) THEN 0 ELSE lo)
    ELSE LET mid == (lo + hi) \div 2
             r   == LastNonWs(s, mid + 1, hi)
         IN  IF r # 0 THEN r ELSE LastNonWs(s, lo, mid)

\* String.prototype.trim
Trim(s) ==
    LET f == FirstNonWs(s, 1, Len(s))
    IN  IF f = 0 THEN <<>> ELSE SubSeq(s, f, LastNonWs(s, 1, Len(s)))

\* text.replace(/\n{3,}/g, '\n\n'): of every run of 3 or more newlines only
\* the first two survive, i.e. a newline preceded by two newlines is dropped.
RECURSIVE CollapseRange(_, _, _)
CollapseRange(s, lo, hi) ==
    IF lo > hi THEN <<>>
    ELSE IF lo = hi
         THEN IF lo >= 3 /\ s[lo] = "\n" /\ s[lo - 1] = "\n" /\ s[lo - 2] = "\n"
              THEN <<>> ELSE <<s[lo]>>
         ELSE LET mid == (lo + hi) \div 2
              IN  CollapseRange(s, lo, mid) \o CollapseRange(s, mid + 1, hi)

\* const normalized = text.replace(/\n{3,}/g, '\n\n').trim();
Normalize(s) == Trim(CollapseRange(s, 1, Len(s)))

\* greatest 0-based index in lo..hi at which pat occurs in s, -1 if none
RECURSIVE LastMatch(_, _, _, _)
LastMatch(s, pat, lo, hi) ==
    IF lo > hi THEN -1
    ELSE IF lo = hi
         THEN IF \A k \in 1..Len(pat) : s[lo + k] = pat[k] THEN lo ELSE -1
         ELSE LET mid == (lo + hi) \div 2
                  r   == LastMatch(s, pat, mid + 1, hi)
              IN  IF r # -1 THEN r ELSE LastMatch(s, pat, lo, mid)

\* String.prototype.lastIndexOf(pat, fromIndex): 0-based index of the last
\* occurrence starting at or before fromIndex, -1 when there is none.
lastIndexOf(s, pat, fromIndex) ==
    LET from == IF fromIndex < 0 THEN 0 ELSE fromIndex
    IN  LastMatch(s, pat, 0, Min(from, Len(s) - Len(pat)))

\* String.prototype.slice(start, end) for end >= 0 (a negative start counts
\* from the end of the string, clamped at 0).
slice(s, start, end) ==
    LET n    == Len(s)
        from == IF start < 0 THEN Max(n + start, 0) ELSE Min(start, n)
        to   == Min(end, n)
    IN  IF from >= to THEN <<>> ELSE SubSeq(s, from + 1, to)

\* The break point chosen for the window starting at p (lines 81-101).
ChunkEnd(s, p, mc) ==
    LET n    == Len(s)
        end0 == Min(p + mc, n)
        paraBreak == lastIndexOf(s, <<"\n", "\n">>, end0)
        sentenceBreak ==
            Max(Max(lastIndexOf(s, <<".", " ">>, end0),
                    lastIndexOf(s, <<".", "\n">>, end0)),
                Max(lastIndexOf(s, <<";", "\n">>, end0),
                    lastIndexOf(s, <<":", "\n">>, end0)))
    IN  IF end0 < n
        THEN IF 10 * paraBreak > 10 * p + 3 * mc        \* paraBreak > pos + maxChars * 0.3
             THEN paraBreak + 2
             ELSE IF 10 * sentenceBreak > 10 * p + 3 * mc
                  THEN sentenceBreak + 1
                  ELSE end0
        ELSE end0

\* chunks after lines 103-106 of one iteration
ChunkPush(s, p, end, cs) ==
    LET chunk == Trim(slice(s, p, end))
    IN  IF Len(chunk) >= MinChunkLen
        THEN Append(cs, [content |-> chunk, startChar |-> p, endChar |-> end])
        ELSE cs

\* pos after lines 109-113 of one iteration; chunks[chunks.length - 1]?.startChar
\* is undefined for an empty array and `pos <= undefined` is false.
ChunkAdvance(end, ov, cs) ==
    LET p == end - ov
    IN  IF cs # <<>> /\ p <= cs[Len(cs)].startChar THEN end ELSE p


\* lines 81-113: the loop state <<pos, chunks>> after one iteration on s
LoopStepOf(s, mc, ov, p, cs) ==
    LET end == ChunkEnd(s, p, mc)
        cs2 == ChunkPush(s, p, end, cs)
    IN  <<ChunkAdvance(end, ov, cs2), cs2>>

\* the same for the call under observation
LoopStep(p, cs) == LoopStepOf(normalized, maxChars, overlap, p, cs)

\* lines 80-116 run to the end: [returns |-> TRUE, chunks |-> the list], or
\* returns |-> FALSE when an iteration repeats the loop state it started from
RECURSIVE ChunkLoop(_, _, _, _, _)
ChunkLoop(s, mc, ov, p, cs) ==
    IF p >= Len(s) THEN [returns |-> TRUE, chunks |-> cs]
    ELSE LET nxt == LoopStepOf(s, mc, ov, p, cs)
         IN  IF nxt = <<p, cs>> THEN [returns |-> FALSE, chunks |-> cs]
             ELSE ChunkLoop(s, mc, ov, nxt[1], nxt[2])

\* chunkText(text) with the default maxChars and overlap, as chunkDocument calls it
chunkText(t) ==
    LET s == Normalize(t)
    IN  IF s = <<>> THEN [returns |-> TRUE, chunks |-> <<>>]
        ELSE ChunkLoop(s, DefaultMaxChars, DefaultOverlap, 0, <<>>)

\* ------------------------------------------------------------------------
\* Idle values of the database and of the search call
\* ------------------------------------------------------------------------
NoDocIds == [given |-> FALSE, ids |-> {}]

DbEmpty ==
    /\ documents = {}
    /\ chunkRows = {}
    /\ azureIndex = {}
    /\ azureConfigured = FALSE

SearchIdle ==
    /\ sQuery = <<>>
    /\ sDossier = "A"
    /\ sTopK = 1
    /\ sDocIds = NoDocIds
    /\ spc = "idle"
    /\ sQueried = {}
    /\ sAzureOutcome = "none"
    /\ sAzureRes = <<>>
    /\ ftsRank = <<>>
    /\ trgmSim = <<>>
    /\ sPrimary = <<>>
    /\ sFallback = <<>>
    /\ sResult = <<>>
    /\ sError = FALSE

Procs == {"p1", "p2"}

IdleRun == [pc |-> "idle", documentId |-> "d1", ocrText |-> 0, oldIds |-> {},
            via |-> "direct", response |-> "none", chunkFailed |-> FALSE]

NothingSeen == [doc |-> "d1", ids |-> {}, spans |-> {}, runs |-> {}]

StoreIdle ==
    /\ cd = [p \in Procs |-> IdleRun]
    /\ cdCalls = 0
    /\ nextId = 1
    /\ azurePending = {}
    /\ seen = NothingSeen

Questions == {"q1", "q2"}

Turns == {"t1", "t2"}

\* the question the requests are about; q2 is another question of the dossier
TurnQuestions == {"q1"}

\* a request slot before any request: the fields are the handler's locals and
\* what it has sent back so far
IdleTurn == [pc |-> "idle", mode |-> "blocking", questionId |-> "q1",
             model |-> "", autoApply |-> FALSE, sent |-> <<>>, full |-> <<>>,
             completed |-> FALSE, events |-> <<>>, outcome |-> "none",
             cancelAt |-> -1, calls |-> 0, applied |-> FALSE,
             includeDocuments |-> "unset", documentIds |-> NoDocIds,
             retrieved |-> FALSE, excerpts |-> <<>>, loaded |-> -1]

InitialResponse == <<"r">>

ChatIdle ==
    /\ messages = <<>>
    /\ responseText = [q \in Questions |-> InitialResponse]
    /\ settings = {}
    /\ turn = [t \in Turns |-> IdleTurn]
    /\ turnsStarted = 0
    /\ clears = 0

\* ---- inputs of the chunker: texts built from runs of one character
MaxRuns == 3

MaxTextLen == 1800

RunChars == {"a", " ", "\n", "."}

\* run lengths around the thresholds of the code: the 50-character minimum,
\* the 200-character overlap, the 1500-character window, the 3-newline collapse
RunLensOf(c) ==
    CASE c = "a"  -> {1, 49, 50, 1500}
      [] c = " "  -> {1, 250, 1500}
      [] c = "\n" -> {1, 2, 3}
      [] OTHER    -> {1}

RunValues == {rv \in RunChars \X {1, 2, 3, 49, 50, 250, 1500} : rv[2] \in RunLensOf(rv[1])}

RunSeqs == UNION {[1..k -> RunValues] : k \in 0..MaxRuns}

RECURSIVE RunsLen(_)
RunsLen(runs) == IF runs = <<>> THEN 0 ELSE runs[1][2] + RunsLen(Tail(runs))

RECURSIVE Expand(_)
Expand(runs) ==
    IF runs = <<>> THEN <<>>
    ELSE [i \in 1..runs[1][2] |-> runs[1][1]] \o Expand(Tail(runs))

\* run descriptions in canonical form (adjacent runs differ) within the length bound
Texts ==
    {Expand(r) : r \in {q \in RunSeqs :
        /\ RunsLen(q) <= MaxTextLen
        /\ \A i \in 1..(Len(q) - 1) : q[i][1] # q[i + 1][1]}}

ChunkParams == {<<DefaultMaxChars, DefaultOverlap>>}

\* no chunkText call under observation
ChunkIdle ==
    /\ text = <<>>
    /\ maxChars = DefaultMaxChars
    /\ overlap = DefaultOverlap
    /\ cphase = "done"
    /\ normalized = <<>>
    /\ pos = 0
    /\ chunks = <<>>

ChunkInit ==
    /\ ChatIdle
    /\ DbEmpty
    /\ SearchIdle
    /\ StoreIdle
    /\ text \in Texts
    /\ \E p \in ChunkParams : maxChars = p[1] /\ overlap = p[2]
    /\ cphase = "call"
    /\ normalized = <<>>
    /\ pos = 0
    /\ chunks = <<>>

\* lines 74-78: normalize, return [] for an empty text, else enter the loop
chunkTextEnter ==
    /\ cphase = "call"
    /\ normalized' = Normalize(text)
    /\ cphase' = IF normalized' = <<>> THEN "done" ELSE "loop"
    /\ pos' = 0
    /\ chunks' = <<>>
    /\ UNCHANGED <<chatVars, text, maxChars, overlap, dbVars, searchVars, storeVars>>

\* lines 80-114: one iteration of `while (pos < normalized.length)`
chunkTextIterate ==
    /\ cphase = "loop"
    /\ pos < Len(normalized)
    /\ pos' = LoopStep(pos, chunks)[1]
    /\ chunks' = LoopStep(pos, chunks)[2]
    /\ UNCHANGED <<chatVars, text, maxChars, overlap, cphase, normalized, dbVars, searchVars, storeVars>>

\* line 116: the loop condition fails, return chunks
chunkTextReturn ==
    /\ cphase = "loop"
    /\ pos >= Len(normalized)
    /\ cphase' = "done"
    /\ UNCHANGED <<chatVars, text, maxChars, overlap, normalized, pos, chunks, dbVars, searchVars, storeVars>>

ChunkNext == chunkTextEnter \/ chunkTextIterate \/ chunkTextReturn

SpecChunk == ChunkInit /\ [][ChunkNext]_vars

\* [start, end) spans of the returned chunks cover every index of normalized
Covered ==
    \A i \in 0..(Len(normalized) - 1) :
        \E k \in 1..Len(chunks) : chunks[k].startChar <= i /\ i < chunks[k].endChar

\* C1: chunkText(text, 1500, 200) terminates: while the end of the normalized
\* text is not reached, an iteration never leaves the loop where it was (an
\* iteration that changes neither pos nor chunks repeats forever).
C1_WindowAdvances ==
    (cphase = "loop" /\ pos < Len(normalized)) => LoopStep(pos, chunks) # <<pos, chunks>>

\* C10: on return, the spans of the chunks cover [0, len(normalized))
C10_Coverage == cphase = "done" => Covered

\* the one chunk that is the whole normalized input
WholeInput == [content |-> normalized, startChar |-> 0, endChar |-> Len(normalized)]

\* C11: no returned chunk is shorter than 50 characters, except that a
\* non-empty normalized input shorter than 50 characters yields exactly one
\* chunk equal to the whole input (so the list holds it as soon as the
\* first iteration of the loop has run); an empty normalized input yields
\* the empty list
C11_MinChunkLength ==
    /\ (cphase = "done" /\ normalized = <<>>) => chunks = <<>>
    /\ (cphase = "done" /\ Len(normalized) >= MinChunkLen) =>
           \A k \in 1..Len(chunks) : Len(chunks[k].content) >= MinChunkLen
    /\ (cphase = "loop" /\ pos # 0 /\ Len(normalized) < MinChunkLen) =>
           chunks = <<WholeInput>>

\* ------------------------------------------------------------------------
\* Hybrid retrieval (RagService.search, RagService.searchPostgres,
\* AzureSearchService.search)
\* ------------------------------------------------------------------------
MaxTopK == 3

MaxRank == 2

MaxQueryLen == 3

\* similarity(c.content, $1) > 0.05, in hundredths
SimThreshold == 5

\* characters the regular expression [a-zA-ZÀ-ÿ0-9] keeps (of those modelled)
IsAlnum(c) == c \in {"a", "b", "é", "1"}

\* query.split(/\s+/): the pieces between maximal runs of whitespace (a leading
\* or trailing run yields an empty piece, as in JavaScript)
RECURSIVE SplitWs(_, _, _, _)
SplitWs(s, i, cur, acc) ==
    IF i > Len(s) THEN Append(acc, cur)
    ELSE IF IsWs(s[i])
         THEN IF i = 1 \/ ~IsWs(s[i - 1])
              THEN SplitWs(s, i + 1, <<>>, Append(acc, cur))
              ELSE SplitWs(s, i + 1, cur, acc)
         ELSE SplitWs(s, i + 1, Append(cur, s[i]), acc)

LongEnough(w) == Len(w) > 2

NonEmpty(w) == w # <<>>

\* lines 227-231: const words = query.split(/\s+/).filter(length > 2)
\*                  .map(strip non-alphanumerics).filter(Boolean)
Tokenize(q) ==
    LET pieces  == SelectSeq(SplitWs(q, 1, <<>>, <<>>), LongEnough)
        stripped == [k \in 1..Len(pieces) |-> SelectSeq(pieces[k], IsAlnum)]
    IN  SelectSeq(stripped, NonEmpty)

\* `documentIds?.length` is truthy
HasDocIds(d) == d.given /\ d.ids # {}

\* ---- the database of the retrieval scenarios: two documents of dossier A
\* (d1 with two chunks, d2 with one) and one document of dossier B
SearchDocuments ==
    {[id |-> "d1", dossier_id |-> "A"], [id |-> "d2", dossier_id |-> "A"],
     [id |-> "d3", dossier_id |-> "B"]}

SampleContent(n) == [k \in 1..(MinChunkLen + n) |-> "a"]

SearchRows ==
    {[id |-> 1, dossier_id |-> "A", document_id |-> "d1", content |-> SampleContent(1),
      start_char |-> 0, end_char |-> 51],
     [id |-> 2, dossier_id |-> "A", document_id |-> "d1", content |-> SampleContent(2),
      start_char |-> 0, end_char |-> 52],
     [id |-> 3, dossier_id |-> "A", document_id |-> "d2", content |-> SampleContent(3),
      start_char |-> 0, end_char |-> 53],
     [id |-> 4, dossier_id |-> "B", document_id |-> "d3", content |-> SampleContent(4),
      start_char |-> 0, end_char |-> 54]}

IndexDoc(r) == [chunk_id |-> r.id, dossier_id |-> r.dossier_id,
                document_id |-> r.document_id, content |-> r.content]

RowIds(rows) == {r.id : r \in rows}

Queries == UNION {[1..k -> {"a", "-", " "}] : k \in 0..MaxQueryLen}

DocIdArgs ==
    {NoDocIds} \cup {[given |-> TRUE, ids |-> S] : S \in {{}, {"d1"}, {"d3"}, {"d1", "dX"}}}

SearchInit ==
    /\ ChatIdle
    /\ ChunkIdle
    /\ StoreIdle
    /\ documents = SearchDocuments
    /\ chunkRows = SearchRows
    /\ azureConfigured \in BOOLEAN
    /\ azureIndex \in IF azureConfigured THEN {{}, {IndexDoc(r) : r \in SearchRows}} ELSE {{}}
    /\ sQuery \in Queries
    /\ sDossier = "A"
    /\ sTopK \in 1..MaxTopK
    /\ sDocIds \in DocIdArgs
    /\ spc = "start"
    /\ sQueried = {}
    /\ sAzureOutcome = "none"
    /\ sAzureRes = <<>>
    /\ ftsRank = <<>>
    /\ trgmSim = <<>>
    /\ sPrimary = <<>>
    /\ sFallback = <<>>
    /\ sResult = <<>>
    /\ sError = FALSE

\* all arrangements of the finite set S as a sequence
Perms(S) == {f \in [1..Cardinality(S) -> S] : \A i, j \in 1..Cardinality(S) : i # j => f[i] # f[j]}

Prefix(seq, n) == SubSeq(seq, 1, Min(n, Len(seq)))

\* SELECT ... ORDER BY score DESC LIMIT limit over the rows `cands`: any
\* arrangement in non-increasing score (ties in any order), cut at limit
SqlTop(cands, score, limit) ==
    {Prefix(f, limit) : f \in {g \in Perms(cands) :
        \A i \in 1..(Len(g) - 1) : score[g[i].id] >= score[g[i + 1].id]}}

ToResult(r, sc) == [id |-> r.id, content |-> r.content, score |-> sc]

\* rows the WHERE clause of both stages keeps before any scoring condition:
\* JOIN documents, c.dossier_id = $2, and the document filter when present
\* ScopeRows without the WHERE c.dossier_id = $2 condition
ScopeRows_AnyDossier(dossier, d) ==
    {r \in chunkRows :
        /\ \E doc \in documents : doc.id = r.document_id
        /\ HasDocIds(d) => r.document_id \in d.ids}

ScopeRows(dossier, d) ==
    {r \in chunkRows :
        /\ \E doc \in documents : doc.id = r.document_id
        /\ r.dossier_id = dossier
        /\ HasDocIds(d) => r.document_id \in d.ids}

\* the scores Postgres may compute for the query in flight: any value for the
\* chunks of the searched dossier; chunks of other dossiers always match with
\* the top score (the worst case for the dossier filter)
RankOracle(dossier, values, top) ==
    {f \in [RowIds(chunkRows) -> values] :
        \A r \in chunkRows : r.dossier_id # dossier => f[r.id] = top}

\* lines 198-204: choose the path
searchDispatch ==
    /\ spc = "start"
    /\ spc' = IF HasDocIds(sDocIds) THEN "postgres"
              ELSE IF azureConfigured THEN "azure" ELSE "postgres"
    /\ UNCHANGED <<chatVars, chunkVars, dbVars, storeVars, sQuery, sDossier, sTopK, sDocIds, sQueried,
                   sAzureOutcome, sAzureRes, ftsRank, trgmSim, sPrimary, sFallback,
                   sResult, sError>>

\* lines 206-210 with AzureSearchService.search: the backend answers with up to
\* topK documents of the index filtered on dossier_id, ranked as it sees fit
azureSearchOk ==
    /\ spc = "azure"
    /\ \E hits \in SUBSET {d \in azureIndex : d.dossier_id = sDossier} :
       \E f \in Perms(hits) :
          /\ Len(f) <= sTopK
          /\ sAzureRes' = [k \in 1..Len(f) |->
                             [id |-> f[k].chunk_id, content |-> f[k].content, score |-> 0]]
    /\ sAzureOutcome' = "ok"
    /\ sQueried' = sQueried \cup {"azure"}
    /\ IF Len(sAzureRes') > 0
       THEN sResult' = sAzureRes' /\ spc' = "done"
       ELSE sResult' = sResult /\ spc' = "postgres"
    /\ UNCHANGED <<chatVars, chunkVars, dbVars, storeVars, sQuery, sDossier, sTopK, sDocIds, ftsRank,
                   trgmSim, sPrimary, sFallback, sError>>

\* azureSearchFail without the try/catch of lines 205-213: the rejection
\* reaches the caller
azureSearchFail_Propagates ==
    /\ spc = "azure"
    /\ sAzureOutcome' = "fail"
    /\ sQueried' = sQueried \cup {"azure"}
    /\ sError' = TRUE
    /\ spc' = "done"
    /\ UNCHANGED <<chatVars, chunkVars, dbVars, storeVars, sQuery, sDossier, sTopK, sDocIds, sAzureRes,
                   ftsRank, trgmSim, sPrimary, sFallback, sResult>>

\* lines 211-213: azureSearch.search rejects; the error is logged only
azureSearchFail ==
    /\ spc = "azure"
    /\ sAzureOutcome' = "fail"
    /\ sQueried' = sQueried \cup {"azure"}
    /\ spc' = "postgres"
    /\ UNCHANGED <<chatVars, chunkVars, dbVars, storeVars, sQuery, sDossier, sTopK, sDocIds, sAzureRes,
                   ftsRank, trgmSim, sPrimary, sFallback, sResult, sError>>

\* lines 227-260: tokenize, return [] without a query when no word is left,
\* else stage 1 (full-text) and return it when it fills topK
searchPostgresFullText ==
    /\ spc = "postgres"
    /\ IF Tokenize(sQuery) = <<>>
       THEN /\ sResult' = <<>>
            /\ spc' = "done"
            /\ UNCHANGED <<sQueried, ftsRank, sPrimary>>
       ELSE /\ sQueried' = sQueried \cup {"fts"}
            /\ ftsRank' \in RankOracle(sDossier, 0..MaxRank, MaxRank)
            /\ \E res \in SqlTop({r \in ScopeRows(sDossier, sDocIds) : ftsRank'[r.id] > 0},
                                 ftsRank', sTopK) :
                  sPrimary' = [k \in 1..Len(res) |-> ToResult(res[k], ftsRank'[res[k].id])]
            /\ IF Len(sPrimary') >= sTopK
               THEN sResult' = sPrimary' /\ spc' = "done"
               ELSE sResult' = sResult /\ spc' = "trigram"
    /\ UNCHANGED <<chatVars, chunkVars, dbVars, storeVars, sQuery, sDossier, sTopK, sDocIds, sAzureOutcome,
                   sAzureRes, trgmSim, sFallback, sError>>

\* searchPostgresTrigram without `c.id != ALL($3::uuid[])`
searchPostgresTrigram_NoExclude ==
    /\ spc = "trigram"
    /\ LET remaining == sTopK - Len(sPrimary)
       IN  /\ trgmSim' \in RankOracle(sDossier, {3, 10, 20}, 20)
           /\ \E res \in SqlTop({r \in ScopeRows(sDossier, sDocIds) :
                                    trgmSim'[r.id] > SimThreshold},
                                trgmSim', remaining) :
                 sFallback' = [k \in 1..Len(res) |-> ToResult(res[k], trgmSim'[res[k].id])]
    /\ sQueried' = sQueried \cup {"trgm"}
    /\ sResult' = sPrimary \o sFallback'
    /\ spc' = "done"
    /\ UNCHANGED <<chatVars, chunkVars, dbVars, storeVars, sQuery, sDossier, sTopK, sDocIds, sAzureOutcome,
                   sAzureRes, ftsRank, sPrimary, sError>>

\* lines 262-312 and 317: stage 2 (trigram) for the remaining slots, over the
\* chunks stage 1 did not return
searchPostgresTrigram ==
    /\ spc = "trigram"
    /\ LET remaining  == sTopK - Len(sPrimary)
           excludeIds == {sPrimary[k].id : k \in 1..Len(sPrimary)}
       IN  /\ trgmSim' \in RankOracle(sDossier, {3, 10, 20}, 20)
           /\ \E res \in SqlTop({r \in ScopeRows(sDossier, sDocIds) :
                                    /\ r.id \notin excludeIds
                                    /\ trgmSim'[r.id] > SimThreshold},
                                trgmSim', remaining) :
                 sFallback' = [k \in 1..Len(res) |-> ToResult(res[k], trgmSim'[res[k].id])]
    /\ sQueried' = sQueried \cup {"trgm"}
    /\ sResult' = sPrimary \o sFallback'
    /\ spc' = "done"
    /\ UNCHANGED <<chatVars, chunkVars, dbVars, storeVars, sQuery, sDossier, sTopK, sDocIds, sAzureOutcome,
                   sAzureRes, ftsRank, sPrimary, sError>>

\* lines 313-317: the trigram query throws (pg_trgm missing); logged only
searchPostgresTrigramFail ==
    /\ spc = "trigram"
    /\ sQueried' = sQueried \cup {"trgm"}
    /\ sFallback' = <<>>
    /\ sResult' = sPrimary \o sFallback'
    /\ spc' = "done"
    /\ UNCHANGED <<chatVars, chunkVars, dbVars, storeVars, sQuery, sDossier, sTopK, sDocIds, sAzureOutcome,
                   sAzureRes, ftsRank, trgmSim, sPrimary, sError>>

SearchNext ==
    \/ searchDispatch
    \/ azureSearchOk
    \/ azureSearchFail
    \/ searchPostgresFullText
    \/ searchPostgresTrigram
    \/ searchPostgresTrigramFail

SpecSearch == SearchInit /\ [][SearchNext]_vars

\* documents a returned chunk id belongs to, in the store or in the index
OriginDocs(id) ==
    {r.document_id : r \in {x \in chunkRows : x.id = id}}
        \cup {d.document_id : d \in {x \in azureIndex : x.chunk_id = id}}

ResultIds(res) == {res[k].id : k \in 1..Len(res)}

\* C6: a query without usable token returns [] and no search stage is queried
C6_EmptyQueryNoStage ==
    (spc = "done" /\ Tokenize(sQuery) = <<>>) => (sResult = <<>> /\ sQueried = {})

\* C7: with document_ids supplied the external backend is not queried and
\* every result originates from a document of the supplied set
C7_DocIdsFilter ==
    (spc = "done" /\ sDocIds.given) =>
        /\ "azure" \notin sQueried
        /\ \A k \in 1..Len(sResult) : OriginDocs(sResult[k].id) \subseteq sDocIds.ids

\* the local lexical path produced the returned list
LocalPathRan ==
    \/ Tokenize(sQuery) = <<>> /\ sResult = <<>> /\ "fts" \notin sQueried
    \/ "fts" \in sQueried /\ sResult = sPrimary \o sFallback

\* C8: document_ids absent and backend configured: a non-empty backend answer
\* is returned as is and the local path is not run; an empty answer or a
\* backend failure falls through to the local path and the call does not fail
C8_AzureWaterfall ==
    (spc = "done" /\ ~sDocIds.given /\ azureConfigured) =>
        /\ ~sError
        /\ (sAzureOutcome = "ok" /\ Len(sAzureRes) > 0) =>
               (sResult = sAzureRes /\ sQueried = {"azure"})
        /\ (sAzureOutcome = "fail" \/ (sAzureOutcome = "ok" /\ Len(sAzureRes) = 0)) =>
               LocalPathRan

C8_Witness ==
    /\ spc = "done" /\ ~sDocIds.given /\ azureConfigured
    /\ sAzureOutcome = "fail"
    /\ Len(sResult) > 0

\* chunks the primary stage matches for the call in flight
PrimaryMatches == {r \in ScopeRows(sDossier, sDocIds) : ftsRank[r.id] > 0}

\* C9: on the local path with k1 < topK primary matches the result is the k1
\* primary results in rank order, then fallback results in descending
\* similarity, at most topK in all and no chunk id twice; with topK primary
\* results the fallback stage is not queried
C9_Waterfall ==
    (spc = "done" /\ "fts" \in sQueried) =>
        LET k1 == Cardinality(PrimaryMatches)
            n  == Len(sResult)
        IN  IF k1 < sTopK
            THEN /\ n <= sTopK
                 /\ \A i, j \in 1..n : i # j => sResult[i].id # sResult[j].id
                 /\ n >= k1
                 /\ {sResult[i].id : i \in 1..k1} = RowIds(PrimaryMatches)
                 /\ \A i, j \in 1..k1 : i < j => ftsRank[sResult[i].id] >= ftsRank[sResult[j].id]
                 /\ \A i \in (k1 + 1)..n : trgmSim[sResult[i].id] > SimThreshold
                 /\ \A i, j \in (k1 + 1)..n :
                        i < j => trgmSim[sResult[i].id] >= trgmSim[sResult[j].id]
            ELSE "trgm" \notin sQueried /\ n = sTopK

C9_Witness ==
    /\ spc = "done" /\ "fts" \in sQueried
    /\ Len(sPrimary) > 0 /\ Len(sPrimary) < sTopK
    /\ Len(sFallback) > 0
    /\ Len(sResult) = Len(sPrimary) + Len(sFallback)

\* ------------------------------------------------------------------------
\* Chunk store (RagService.chunkDocument, AzureSearchService.indexChunks /
\* deleteDocumentChunks) and its readers
\* ------------------------------------------------------------------------
MaxChunkDocCalls == 2

StoreDocuments == {[id |-> "d1", dossier_id |-> "A"], [id |-> "d2", dossier_id |-> "A"]}

\* OCR texts a document may carry: empty, one chunk, several chunks, and a
\* text shorter than 50 characters
DocText(k) ==
    CASE k = 0 -> <<>>
      [] k = 1 -> [i \in 1..MinChunkLen |-> "a"]
      [] k = 2 -> [i \in 1..DefaultMaxChars |-> "a"] \o <<"\n", "\n">> \o [i \in 1..MinChunkLen |-> "a"]
      [] OTHER -> <<"a">>

TextIxs == 0..3

\* this.chunkText(ocrText) for each of them
ChunksOf == [k \in TextIxs |-> chunkText(DocText(k))]

DossierOfDoc(d) == (CHOOSE doc \in documents : doc.id = d).dossier_id

RowsOfDoc(d) == {r \in chunkRows : r.document_id = d}

SpanSet(cs) == {<<cs[i].startChar, cs[i].endChar, cs[i].content>> : i \in 1..Len(cs)}

RowSpans(rows) == {<<r.start_char, r.end_char, r.content>> : r \in rows}

\* a run that has read the old chunk ids and has not returned (nor is stuck
\* inside chunkText)
InRun(p) == cd[p].pc \in {"delete", "save"}

\* chunkText is synchronous: a call that never returns blocks the event loop
\* of the server, which then serves nothing else
Responsive == \A p \in Procs : cd[p].pc # "hung"

StoreInit ==
    /\ ChatIdle
    /\ ChunkIdle
    /\ SearchIdle
    /\ StoreIdle
    /\ documents = StoreDocuments
    /\ chunkRows = {}
    /\ azureIndex = {}
    /\ azureConfigured \in BOOLEAN

\* where a run continues once the old chunks are out of the way (lines
\* 144-148): chunkText runs synchronously; no chunk means return 0
AfterChunkText(k) ==
    IF ~ChunksOf[k].returns THEN "hung"
    ELSE IF ChunksOf[k].chunks = <<>> THEN "done" ELSE "save"

\* the request record once its chunkDocument call has returned: triggerOcr
\* (241-246) answers with the chunk count; upload has answered long before
Returned(r) ==
    IF r.pc = "done" /\ r.via = "ocr" THEN [r EXCEPT !.response = "ok"] ELSE r

\* the request record once its chunkDocument call has rejected: upload's
\* processDocumentForRag catches and logs (124-126); triggerOcr awaits the
\* call with no try/catch, so the request fails
Rejected(r) ==
    [r EXCEPT !.pc = "done", !.chunkFailed = TRUE,
              !.response = IF r.via = "ocr" THEN "error" ELSE @]

\* lines 123-135: a call chunkDocument(d, dossier, DocText(k), ...) whose
\* chunkRepo.find has been answered
cdFind(p, d, k) ==
    /\ cd[p].pc \in {"idle", "done"}
    /\ Responsive
    /\ cdCalls < MaxChunkDocCalls
    /\ cdCalls' = cdCalls + 1
    /\ LET old == RowIds(RowsOfDoc(d))
       IN  cd' = [cd EXCEPT ![p] =
                    Returned([IdleRun EXCEPT
                                !.pc = IF old # {} THEN "delete" ELSE AfterChunkText(k),
                                !.documentId = d, !.ocrText = k, !.oldIds = old])]
    /\ UNCHANGED <<chatVars, chunkVars, dbVars, searchVars, nextId, azurePending, seen>>

\* cdDelete whose chunkRepo.delete removes no row
cdDelete_Keep(p) ==
    /\ cd[p].pc = "delete"
    /\ Responsive
    /\ chunkRows' = chunkRows
    /\ azurePending' = azurePending \cup {[kind |-> "delete", ids |-> cd[p].oldIds, docs |-> {}]}
    /\ cd' = [cd EXCEPT ![p] = Returned([@ EXCEPT !.pc = AfterChunkText(cd[p].ocrText)])]
    /\ UNCHANGED <<chatVars, chunkVars, searchVars, documents, azureIndex, azureConfigured,
                   cdCalls, nextId, seen>>

\* lines 136-148: chunkRepo.delete({document_id}) is executed, the index
\* delete is fired and not awaited
cdDelete(p) ==
    /\ cd[p].pc = "delete"
    /\ Responsive
    /\ chunkRows' = chunkRows \ RowsOfDoc(cd[p].documentId)
    /\ azurePending' = azurePending \cup {[kind |-> "delete", ids |-> cd[p].oldIds, docs |-> {}]}
    /\ cd' = [cd EXCEPT ![p] = Returned([@ EXCEPT !.pc = AfterChunkText(cd[p].ocrText)])]
    /\ UNCHANGED <<chatVars, chunkVars, searchVars, documents, azureIndex, azureConfigured,
                   cdCalls, nextId, seen>>

\* the rows chunkRepo.save(entities) inserts (lines 150-160), ids from nextId on
NewRows(p) ==
    LET cs == ChunksOf[cd[p].ocrText].chunks
    IN  {[id |-> nextId + i - 1, dossier_id |-> DossierOfDoc(cd[p].documentId),
          document_id |-> cd[p].documentId, content |-> cs[i].content,
          start_char |-> cs[i].startChar, end_char |-> cs[i].endChar] : i \in 1..Len(cs)}

\* lines 160-181: chunkRepo.save(entities) is executed (one transaction), the
\* index upload is fired and not awaited, the count is returned
cdSave(p) ==
    /\ cd[p].pc = "save"
    /\ Responsive
    /\ chunkRows' = chunkRows \cup NewRows(p)
    /\ nextId' = nextId + Cardinality(NewRows(p))
    /\ azurePending' = azurePending \cup
           {[kind |-> "index", ids |-> {}, docs |-> {IndexDoc(r) : r \in NewRows(p)}]}
    /\ cd' = [cd EXCEPT ![p] = Returned([@ EXCEPT !.pc = "done"])]
    /\ UNCHANGED <<chatVars, chunkVars, searchVars, documents, azureIndex, azureConfigured,
                   cdCalls, seen>>

\* AzureSearchService.deleteDocumentChunks / indexChunks run to the end: a
\* no-op when the backend is not configured
azureCallDone(c) ==
    /\ c \in azurePending
    /\ Responsive
    /\ azurePending' = azurePending \ {c}
    /\ azureIndex' =
         IF ~azureConfigured THEN azureIndex
         ELSE IF c.kind = "delete"
              THEN {d \in azureIndex : d.chunk_id \notin c.ids}
              ELSE {d \in azureIndex : d.chunk_id \notin {x.chunk_id : x \in c.docs}} \cup c.docs
    /\ UNCHANGED <<chatVars, chunkVars, searchVars, documents, chunkRows, azureConfigured,
                   cd, cdCalls, nextId, seen>>

\* the backend call rejects; chunkDocument's .catch only logs (lines 139-141, 174-176)
azureCallFail(c) ==
    /\ c \in azurePending
    /\ Responsive
    /\ azureConfigured
    /\ azurePending' = azurePending \ {c}
    /\ UNCHANGED <<chatVars, chunkVars, dbVars, searchVars, cd, cdCalls, nextId, seen>>

\* one SQL statement of a reader - chunkRepo.count of getChunkCount or a stage
\* query of searchPostgres - evaluated now; recorded: the chunks of document d
\* it sees and the chunkDocument runs on d in progress at that moment
readerQuery(d) ==
    /\ Responsive
    /\ seen' = [doc |-> d, ids |-> RowIds(RowsOfDoc(d)), spans |-> RowSpans(RowsOfDoc(d)),
                runs |-> {[oldIds |-> cd[p].oldIds, ocrText |-> cd[p].ocrText] :
                          p \in {q \in Procs : InRun(q) /\ cd[q].documentId = d}}]
    /\ UNCHANGED <<chatVars, chunkVars, dbVars, searchVars, cd, cdCalls, nextId, azurePending>>

\* one writer at a time (requests served one after the other) and readers
StoreReadNext ==
    \/ \E d \in {"d1", "d2"}, k \in TextIxs : cdFind("p1", d, k)
    \/ cdDelete("p1")
    \/ cdSave("p1")
    \/ \E c \in azurePending : azureCallDone(c)
    \/ \E c \in azurePending : azureCallFail(c)
    \/ \E d \in {"d1", "d2"} : readerQuery(d)

SpecStoreRead == StoreInit /\ [][StoreReadNext]_vars

\* C2: a reader query made while a chunkDocument run on the document is in
\* progress sees the complete old chunk set or the complete new one, never an
\* empty or partial set
C2_NoIntermediateRead ==
    \A r \in seen.runs :
        \/ seen.ids = r.oldIds
        \/ /\ seen.spans = SpanSet(ChunksOf[r.ocrText].chunks)
           /\ seen.ids \cap r.oldIds = {}

\* ------------------------------------------------------------------------
\* Chat turns (LlmController.chat / chatStream / clearMessages over LlmService)
\* ------------------------------------------------------------------------
MaxClears == 1

MaxDeltas == 2

\* export const AVAILABLE_MODELS
AVAILABLE_MODELS ==
    {[id |-> "openai/gpt-5.2-chat", provider |-> "openai"],
     [id |-> "openai/gpt-4.1", provider |-> "openai"],
     [id |-> "openai/gpt-4.1-mini", provider |-> "openai"],
     [id |-> "openai/gpt-4.1-nano", provider |-> "openai"],
     [id |-> "openai/gpt-4o", provider |-> "openai"],
     [id |-> "openai/o3", provider |-> "openai"],
     [id |-> "openai/o3-mini", provider |-> "openai"],
     [id |-> "anthropic/claude-opus-4-6", provider |-> "anthropic"],
     [id |-> "anthropic/claude-sonnet-4-6", provider |-> "anthropic"],
     [id |-> "anthropic/claude-sonnet-4-5-20250929", provider |-> "anthropic"],
     [id |-> "anthropic/claude-haiku-4-5-20251001", provider |-> "anthropic"],
     [id |-> "azure-openai/gpt-5.2-chat", provider |-> "azure-openai"],
     [id |-> "azure-openai/gpt-4o", provider |-> "azure-openai"],
     [id |-> "azure-openai/gpt-4.1", provider |-> "azure-openai"],
     [id |-> "azure-openai/gpt-4.1-mini", provider |-> "azure-openai"],
     [id |-> "azure-openai/gpt-4.1-nano", provider |-> "azure-openai"]}

\* the settings each provider's call reads and requires
RequiredSettings(provider) ==
    CASE provider = "openai" -> {"openai_api_key"}
      [] provider = "anthropic" -> {"anthropic_api_key"}
      [] provider = "azure-openai" -> {"azure_openai_endpoint", "azure_openai_api_key"}
      [] OTHER -> {}

\* the request bodies: <<endpoint, dto.model, dto.autoApplyToResponse>>
ChatArgs ==
    {<<"blocking", "openai/gpt-4o", TRUE>>,
     <<"blocking", "anthropic/claude-sonnet-4-6", FALSE>>,
     <<"blocking", "mistral/large", TRUE>>,
     <<"stream", "openai/gpt-4o", TRUE>>,
     <<"stream", "anthropic/claude-sonnet-4-6", FALSE>>,
     <<"stream", "azure-openai/gpt-4o", TRUE>>,
     <<"blocking", "azure-openai/gpt-4o", FALSE>>,
     <<"stream", "mistral/large", FALSE>>}

\* table settings of the server: Azure OpenAI is not set up
ServerSettings == {"openai_api_key", "anthropic_api_key"}

\* text pieces a provider streams
Deltas == {"x", "y"}

\* message.content of a blocking completion
Completions == {<<>>, <<"x">>}

SystemPrompt == <<"S">>

UserMessage == <<"u">>

\* an earlier, finished conversation on the other question
OtherHistory ==
    <<[question_id |-> "q2", role |-> "system", content |-> SystemPrompt, turn |-> "t0"],
      [question_id |-> "q2", role |-> "user", content |-> UserMessage, turn |-> "t0"],
      [question_id |-> "q2", role |-> "assistant", content |-> <<"x">>, turn |-> "t0"]>>

\* LlmService.getMessages(questionId)
getMessages(q) == SelectSeq(messages, LAMBDA m : m.question_id = q)

\* saveMessage whose row sorts before the rows already stored
saveMessage_Front(t, role, content) ==
    <<[question_id |-> turn[t].questionId, role |-> role,
       content |-> content, turn |-> t]>> \o messages

\* LlmService.saveMessage 453-470: a row is inserted with created_at set by
\* the database at insertion; getMessages orders by created_at, so the table
\* is kept as the sequence of rows in insertion order. `turn` names the
\* request that made the call
saveMessage(t, role, content) ==
    Append(messages, [question_id |-> turn[t].questionId, role |-> role,
                      content |-> content, turn |-> t])

ModelDef(m) == {d \in AVAILABLE_MODELS : d.id = m}

ProviderOf(m) == (CHOOSE d \in AVAILABLE_MODELS : d.id = m).provider

\* the turn record after the LLM call rejected: chat lets the exception out
\* (one error response); chatStream's catch writes one error event and ends
Failed(r) ==
    IF r.mode = "blocking"
    THEN [r EXCEPT !.pc = "done", !.outcome = "error"]
    ELSE [r EXCEPT !.pc = "done", !.events = Append(@, [type |-> "error", content |-> <<>>])]

\* chat 151-158: the response body; chatStream 248-267: the done event, res.end()
Responded(r) ==
    IF r.mode = "blocking"
    THEN [r EXCEPT !.pc = "done", !.outcome = "ok"]
    ELSE [r EXCEPT !.pc = "done", !.events = Append(@, [type |-> "done", content |-> r.full])]

ChatInit ==
    /\ ChunkIdle
    /\ DbEmpty
    /\ SearchIdle
    /\ StoreIdle
    /\ messages = OtherHistory
    /\ responseText = [q \in Questions |-> InitialResponse]
    /\ settings = ServerSettings
    /\ turn = [t \in Turns |-> IdleTurn]
    /\ turnsStarted = 0
    /\ clears = 0

\* chatLoad that goes on to the system prompt whatever the history holds
chatLoad_AlwaysSystem(t, args, q) ==
    /\ turn[t].pc = "idle"
    /\ t = "t2" => turn["t1"].pc # "idle"
    /\ turnsStarted' = turnsStarted + 1
    /\ turn' = [turn EXCEPT ![t] =
                  [IdleTurn EXCEPT !.pc = "system",
                                   !.loaded = Len(getMessages(q)),
                                   !.mode = args[1], !.questionId = q,
                                   !.model = args[2], !.autoApply = args[3]]]
    /\ UNCHANGED <<chunkVars, dbVars, searchVars, storeVars, messages, responseText,
                   settings, clears>>

\* chat 91-113 / chatStream 171-193 up to the first getMessages: the request
\* is received, the question found, the history loaded (`loaded` is
\* messages.length). t2 names the request that arrives second.
chatLoad(t, args, q) ==
    /\ turn[t].pc = "idle"
    /\ t = "t2" => turn["t1"].pc # "idle"
    /\ turnsStarted' = turnsStarted + 1
    /\ turn' = [turn EXCEPT ![t] =
                  [IdleTurn EXCEPT !.pc = IF Len(getMessages(q)) = 0 THEN "system" ELSE "user",
                                   !.loaded = Len(getMessages(q)),
                                   !.mode = args[1], !.questionId = q,
                                   !.model = args[2], !.autoApply = args[3]]]
    /\ UNCHANGED <<chunkVars, dbVars, searchVars, storeVars, messages, responseText,
                   settings, clears>>

\* chat 104-112 / chatStream 184-192: buildSystemPrompt always holds the
\* question section, so systemPrompt.trim() is non-empty and it is saved
chatSaveSystem(t) ==
    /\ turn[t].pc = "system"
    /\ messages' = saveMessage(t, "system", SystemPrompt)
    /\ turn' = [turn EXCEPT ![t].pc = "user"]
    /\ UNCHANGED <<chunkVars, dbVars, searchVars, storeVars, responseText, settings,
                   turnsStarted, clears>>

\* chat 116-121 / chatStream 196-201
chatSaveUser(t) ==
    /\ turn[t].pc = "user"
    /\ messages' = saveMessage(t, "user", UserMessage)
    /\ turn' = [turn EXCEPT ![t].pc = "reload"]
    /\ UNCHANGED <<chunkVars, dbVars, searchVars, storeVars, responseText, settings,
                   turnsStarted, clears>>

\* LlmService.chat 63-68 and the head of the provider method (84-90, 127-138,
\* 184-190): the model id is not in the catalog, or a setting the provider
\* requires has no value
ConfigError(m) ==
    \/ ModelDef(m) = {}
    \/ ~(RequiredSettings(ProviderOf(m)) \subseteq settings)

\* chatReload that creates the client without looking at catalog or settings
chatReload_NoCheck(t) ==
    /\ turn[t].pc = "reload"
    /\ turn' = [turn EXCEPT ![t].sent = getMessages(turn[t].questionId),
                            ![t].pc = "provider", ![t].calls = @ + 1]
    /\ UNCHANGED <<chunkVars, dbVars, searchVars, storeVars, messages, responseText,
                   settings, turnsStarted, clears>>

\* chat 124-133 / chatStream 204-220: the history is reloaded (chatStream
\* sends the SSE headers) and handed to LlmService.chat 62-79 / chatStream
\* 231-255 and the head of the provider method, where an unknown model or a
\* missing setting throws before any network call
chatReload(t) ==
    /\ turn[t].pc = "reload"
    /\ LET r == [turn[t] EXCEPT !.sent = getMessages(turn[t].questionId)]
       IN  turn' = [turn EXCEPT ![t] =
                      IF ConfigError(r.model)
                      THEN Failed(r)
                      ELSE [r EXCEPT !.pc = "provider", !.calls = @ + 1]]
    /\ UNCHANGED <<chunkVars, dbVars, searchVars, storeVars, messages, responseText,
                   settings, turnsStarted, clears>>

\* chatOpenAI 103-122 / chatAnthropic 205-226: the completion arrives; OpenAI
\* rejects an empty content, Anthropic returns the text block's text as it is
providerReturn(t, c) ==
    /\ turn[t].pc = "provider"
    /\ turn[t].mode = "blocking"
    /\ turn' = [turn EXCEPT ![t] =
                  IF ProviderOf(turn[t].model) # "anthropic" /\ c = <<>>
                  THEN Failed([turn[t] EXCEPT !.completed = TRUE])
                  ELSE [turn[t] EXCEPT !.pc = "saveAssistant", !.full = c, !.completed = TRUE]]
    /\ UNCHANGED <<chunkVars, dbVars, searchVars, storeVars, messages, responseText,
                   settings, turnsStarted, clears>>

\* providerThrow whose handler goes on to store what it has so far
providerThrow_SavesPartial(t) ==
    /\ turn[t].pc = "provider"
    /\ turn' = [turn EXCEPT ![t].pc = "saveAssistant"]
    /\ UNCHANGED <<chunkVars, dbVars, searchVars, storeVars, messages, responseText,
                   settings, turnsStarted, clears>>

\* the provider call rejects (network error, timeout, API error), at once or
\* in the middle of a stream
providerThrow(t) ==
    /\ turn[t].pc = "provider"
    /\ turn' = [turn EXCEPT ![t] = Failed(turn[t])]
    /\ UNCHANGED <<chunkVars, dbVars, searchVars, storeVars, messages, responseText,
                   settings, turnsStarted, clears>>

\* providerDelta that puts the delta in front of fullContent
providerDelta_Prepend(t, d) ==
    /\ turn[t].pc = "provider"
    /\ turn[t].mode = "stream"
    /\ Len(turn[t].full) < MaxDeltas
    /\ turn' = [turn EXCEPT ![t].full = <<d>> \o @,
                            ![t].events = Append(@, [type |-> "delta", content |-> <<d>>])]
    /\ UNCHANGED <<chunkVars, dbVars, searchVars, storeVars, messages, responseText,
                   settings, turnsStarted, clears>>

\* chatStreamOpenAI 293-305 / chatStreamAnthropic 427-435 with chatStream
\* 222-226: one text delta arrives and is written to the response
providerDelta(t, d) ==
    /\ turn[t].pc = "provider"
    /\ turn[t].mode = "stream"
    /\ Len(turn[t].full) < MaxDeltas
    /\ turn' = [turn EXCEPT ![t].full = Append(@, d),
                            ![t].events = Append(@, [type |-> "delta", content |-> <<d>>])]
    /\ UNCHANGED <<chunkVars, dbVars, searchVars, storeVars, messages, responseText,
                   settings, turnsStarted, clears>>

\* chatStreamOpenAI 307-309 / chatStreamAnthropic 437-441: the provider's
\* stream ends and the generator yields done with fullContent
providerStreamEnd(t) ==
    /\ turn[t].pc = "provider"
    /\ turn[t].mode = "stream"
    /\ turn' = [turn EXCEPT ![t].pc = "saveAssistant", ![t].completed = TRUE]
    /\ UNCHANGED <<chunkVars, dbVars, searchVars, storeVars, messages, responseText,
                   settings, turnsStarted, clears>>

\* chatSaveAssistant that also runs while the provider is still answering
chatSaveAssistant_Early(t) ==
    /\ turn[t].pc \in {"provider", "saveAssistant"}
    /\ messages' = saveMessage(t, "assistant", turn[t].full)
    /\ turn' = [turn EXCEPT ![t] =
                  IF turn[t].autoApply THEN [turn[t] EXCEPT !.pc = "apply"]
                  ELSE Responded(turn[t])]
    /\ UNCHANGED <<chunkVars, dbVars, searchVars, storeVars, responseText, settings,
                   turnsStarted, clears>>

\* chat 136-158 / chatStream 229-257: the assistant message is saved; without
\* autoApplyToResponse the handler goes on to respond
chatSaveAssistant(t) ==
    /\ turn[t].pc = "saveAssistant"
    /\ messages' = saveMessage(t, "assistant", turn[t].full)
    /\ turn' = [turn EXCEPT ![t] =
                  IF turn[t].autoApply THEN [turn[t] EXCEPT !.pc = "apply"]
                  ELSE Responded(turn[t])]
    /\ UNCHANGED <<chunkVars, dbVars, searchVars, storeVars, responseText, settings,
                   turnsStarted, clears>>

\* chatApply that responds without the questionRepo.update
chatApply_NoUpdate(t) ==
    /\ turn[t].pc = "apply"
    /\ turn' = [turn EXCEPT ![t] = Responded([turn[t] EXCEPT !.applied = TRUE])]
    /\ UNCHANGED <<chunkVars, dbVars, searchVars, storeVars, messages, responseText,
                   settings, turnsStarted, clears>>

\* chat 146-158 / chatStream 239-267: questionRepo.update, then the response
chatApply(t) ==
    /\ turn[t].pc = "apply"
    /\ responseText' = [responseText EXCEPT ![turn[t].questionId] = turn[t].full]
    /\ turn' = [turn EXCEPT ![t] = Responded([turn[t] EXCEPT !.applied = TRUE])]
    /\ UNCHANGED <<chunkVars, dbVars, searchVars, storeVars, messages, settings,
                   turnsStarted, clears>>

\* the client of an open stream aborts its fetch (frontend chatStream's
\* AbortController) or loses the connection while the provider is still
\* streaming; chatStream registers no close listener and passes no abort
\* signal, so nothing in the handler changes
clientDisconnect(t) ==
    /\ turn[t].mode = "stream"
    /\ turn[t].pc = "provider"
    /\ turn[t].cancelAt = -1
    /\ turn' = [turn EXCEPT ![t].cancelAt = Len(turn[t].events)]
    /\ UNCHANGED <<chunkVars, dbVars, searchVars, storeVars, messages, responseText,
                   settings, turnsStarted, clears>>

\* clearMessages whose delete has no where clause
clearMessages_All(q) ==
    /\ clears < MaxClears
    /\ clears' = clears + 1
    /\ messages' = <<>>
    /\ UNCHANGED <<chunkVars, dbVars, searchVars, storeVars, responseText, settings,
                   turn, turnsStarted>>

\* LlmController.clearMessages 373-376 / LlmService.clearMessages 472-474
clearMessages(q) ==
    /\ clears < MaxClears
    /\ clears' = clears + 1
    /\ messages' = SelectSeq(messages, LAMBDA m : m.question_id # q)
    /\ UNCHANGED <<chunkVars, dbVars, searchVars, storeVars, responseText, settings,
                   turn, turnsStarted>>

\* the steps of request t after its history load
TurnStep(t) ==
    \/ chatSaveSystem(t)
    \/ chatSaveUser(t)
    \/ chatReload(t)
    \/ \E c \in Completions : providerReturn(t, c)
    \/ providerThrow(t)
    \/ \E d \in Deltas : providerDelta(t, d)
    \/ providerStreamEnd(t)
    \/ chatSaveAssistant(t)
    \/ chatApply(t)

\* one request at a time on the question, every kind of request, a client
\* that may go away, and clears
TurnNext ==
    \/ \E args \in ChatArgs, q \in TurnQuestions : chatLoad("t1", args, q)
    \/ TurnStep("t1")
    \/ clientDisconnect("t1")
    \/ \E q \in Questions : clearMessages(q)

SpecTurn == ChatInit /\ [][TurnNext]_vars

\* the request bodies of the requests that overlap
ConcurrentArgs ==
    {<<"blocking", "openai/gpt-4o", TRUE>>,
     <<"stream", "openai/gpt-4o", TRUE>>,
     <<"stream", "azure-openai/gpt-4o", TRUE>>}

\* two requests on the same question, in any interleaving, and clears
ChatNext ==
    \/ \E t \in Turns, args \in ConcurrentArgs, q \in TurnQuestions : chatLoad(t, args, q)
    \/ \E t \in Turns : TurnStep(t)
    \/ \E q \in Questions : clearMessages(q)

SpecChat == ChatInit /\ [][ChatNext]_vars

RolesOf(q) == [i \in 1..Len(getMessages(q)) |-> getMessages(q)[i].role]

\* the assistant messages request t has stored
AssistantOf(t) == {i \in 1..Len(messages) : messages[i].role = "assistant" /\ messages[i].turn = t}

\* C3: the stored history of a question holds at most one system message,
\* and a non-empty history starts with a system message, whatever chat
\* turns and clears interleave
C3_SingleLeadingSystem ==
    \A q \in Questions :
        /\ Cardinality({i \in 1..Len(RolesOf(q)) : RolesOf(q)[i] = "system"}) <= 1
        /\ Len(RolesOf(q)) > 0 => RolesOf(q)[1] = "system"

\* C4: a streaming turn whose client went away after at least one delta
\* event and before the terminal event stores no assistant message and does
\* not write the response field
C4_CancelStoresNothing ==
    \A t \in Turns :
        (turn[t].mode = "stream" /\ turn[t].cancelAt >= 1 /\ turn[t].pc # "idle") =>
            /\ AssistantOf(t) = {}
            /\ ~turn[t].applied

\* C5: a turn whose provider answered with an empty completion ends as a
\* failed provider call: one failure to the caller (streaming: one error
\* event and no done event), no assistant message stored, response field
\* not written
C5_EmptyCompletionFails ==
    \A t \in Turns :
        (turn[t].pc = "done" /\ turn[t].completed /\ turn[t].full = <<>>) =>
            /\ AssistantOf(t) = {}
            /\ ~turn[t].applied
            /\ IF turn[t].mode = "blocking"
               THEN turn[t].outcome = "error"
               ELSE /\ Cardinality({i \in 1..Len(turn[t].events) : turn[t].events[i].type = "error"}) = 1
                    /\ \A i \in 1..Len(turn[t].events) : turn[t].events[i].type # "done"

\* the assistant message request t stores for content c
AssistantMessage(t, c) ==
    [question_id |-> turn[t].questionId, role |-> "assistant", content |-> c, turn |-> t]

\* C12: a turn with autoApplyToResponse whose provider returned a non-empty
\* content X appends exactly one assistant message, of content X, to the
\* question's history, and ends with response_text = X
C12_AutoApply ==
    /\ [](\A t \in Turns :
            (turn[t].pc = "done" /\ turn[t].autoApply /\ turn[t].completed
                                 /\ turn[t].full # <<>>) =>
                /\ responseText[turn[t].questionId] = turn[t].full
                /\ Cardinality(AssistantOf(t)) <= 1)
    /\ [][\A t \in Turns :
            (turn[t].pc = "saveAssistant" /\ turn'[t].pc # "saveAssistant") =>
                messages' = Append(messages, AssistantMessage(t, turn[t].full))]_vars
    /\ [][\A t \in Turns :
            (turn[t].pc = "provider" /\ turn[t].autoApply /\ turn'[t].completed
                                     /\ turn'[t].full # <<>>) =>
                turn'[t].pc = "saveAssistant"]_vars
    /\ [][\A t \in Turns :
            (turn[t].pc = "apply" /\ turn'[t].pc # "apply") =>
                (AssistantOf(t) # {} \/ clears > 0)]_vars

C12_Witness ==
    \E t \in Turns :
        /\ turn[t].pc = "done" /\ turn[t].mode = "stream" /\ turn[t].autoApply
        /\ turn[t].full = <<"x", "x">>
        /\ responseText[turn[t].questionId] = <<"x", "x">>
        /\ messages[Len(messages)] = AssistantMessage(t, <<"x", "x">>)

\* the contents of the events of a list, concatenated in order
RECURSIVE ConcatContents(_)
ConcatContents(evs) ==
    IF evs = <<>> THEN <<>> ELSE evs[1].content \o ConcatContents(Tail(evs))

Terminal(e) == e.type \in {"done", "error"}

\* C13: the events written on an opened stream are delta events followed by
\* one terminal event, done or error, with nothing after it; once the
\* response has ended there is exactly one terminal event; a done event
\* carries the concatenation, in order, of the deltas before it
C13_StreamShape ==
    \A t \in Turns :
        LET ev == turn[t].events
        IN  turn[t].mode = "stream" =>
              /\ \A i \in 1..Len(ev) : Terminal(ev[i]) <=> (i = Len(ev) /\ turn[t].pc = "done")
              /\ \A i \in 1..Len(ev) : ~Terminal(ev[i]) => ev[i].type = "delta"
              /\ (turn[t].pc = "done") => Len(ev) >= 1
              /\ \A i \in 1..Len(ev) :
                    ev[i].type = "done" => ev[i].content = ConcatContents(SubSeq(ev, 1, i - 1))

C13_Witness ==
    \E t \in Turns :
        /\ turn[t].pc = "done"
        /\ Len(turn[t].events) = 3
        /\ turn[t].events[1].content = <<"x">>
        /\ turn[t].events[2].content = <<"y">>
        /\ turn[t].events[3] = [type |-> "done", content |-> <<"x", "y">>]

\* the events of type ty in a list
EventsOfType(evs, ty) == {i \in 1..Len(evs) : evs[i].type = ty}

\* C14: a turn whose LLM call rejected (the provider call threw, or the
\* stream failed before its done event) stores no assistant message, leaves
\* response_text as it was, and gives the caller one failure (streaming:
\* one error event, the last one, and no done event)
C14_ProviderFailure ==
    \A t \in Turns :
        (turn[t].pc = "done" /\ turn[t].calls > 0 /\ ~turn[t].completed) =>
            /\ AssistantOf(t) = {}
            /\ ~turn[t].applied
            /\ responseText[turn[t].questionId] = InitialResponse
            /\ IF turn[t].mode = "blocking"
               THEN turn[t].outcome = "error"
               ELSE /\ EventsOfType(turn[t].events, "error") = {Len(turn[t].events)}
                    /\ EventsOfType(turn[t].events, "done") = {}

C14_Witness ==
    \E t \in Turns :
        /\ turn[t].pc = "done" /\ turn[t].mode = "stream" /\ turn[t].autoApply
        /\ turn[t].calls = 1 /\ ~turn[t].completed
        /\ Len(turn[t].events) = 2
        /\ turn[t].events[1].type = "delta"
        /\ turn[t].events[2].type = "error"

\* C15: a chat call whose model id is not in the catalog, or whose provider
\* lacks a required setting, makes no provider network call and fails
\* (blocking: an error response; streaming: the error event alone)
C15_ConfigErrorNoCall ==
    \A t \in Turns :
        (turn[t].pc # "idle" /\ ConfigError(turn[t].model)) =>
            /\ turn[t].calls = 0
            /\ turn[t].pc \notin {"provider", "saveAssistant", "apply"}
            /\ turn[t].pc = "done" =>
                  IF turn[t].mode = "blocking"
                  THEN turn[t].outcome = "error"
                  ELSE /\ Len(turn[t].events) = 1
                       /\ turn[t].events[1].type = "error"

C15_Witness ==
    \E t \in Turns :
        /\ turn[t].pc = "done" /\ turn[t].mode = "stream" /\ ModelDef(turn[t].model) # {}
        /\ ConfigError(turn[t].model) /\ turn[t].calls = 0
        /\ EventsOfType(turn[t].events, "error") = {1}

\* ------------------------------------------------------------------------
\* Ingestion requests (DocumentController.upload / processDocumentForRag /
\* triggerOcr) around RagService.chunkDocument
\* ------------------------------------------------------------------------
IngestInit ==
    /\ ChatIdle
    /\ ChunkIdle
    /\ SearchIdle
    /\ StoreIdle
    /\ documents = {doc \in StoreDocuments : doc.id = "d2"}
    /\ chunkRows = {}
    /\ azureIndex = {}
    /\ azureConfigured \in BOOLEAN

\* upload 87-101: documentService.upload stores the document, the
\* background processing is started and not awaited, the document is returned
uploadRequest(p, d, k) ==
    /\ cd[p].pc \in {"idle", "done"}
    /\ Responsive
    /\ cdCalls < MaxChunkDocCalls
    /\ d \notin {doc.id : doc \in documents}
    /\ cdCalls' = cdCalls + 1
    /\ documents' = documents \cup {doc \in StoreDocuments : doc.id = d}
    /\ cd' = [cd EXCEPT ![p] = [IdleRun EXCEPT !.pc = "ocr", !.documentId = d, !.ocrText = k,
                                               !.via = "upload", !.response = "ok"]]
    /\ UNCHANGED <<chatVars, chunkVars, searchVars, chunkRows, azureIndex, azureConfigured,
                   nextId, azurePending, seen>>

\* triggerOcr 201-202: POST documents/:id/ocr finds the document
ocrRequest(p, d, k) ==
    /\ cd[p].pc \in {"idle", "done"}
    /\ Responsive
    /\ cdCalls < MaxChunkDocCalls
    /\ d \in {doc.id : doc \in documents}
    /\ cdCalls' = cdCalls + 1
    /\ cd' = [cd EXCEPT ![p] = [IdleRun EXCEPT !.pc = "ocr", !.documentId = d, !.ocrText = k,
                                               !.via = "ocr"]]
    /\ UNCHANGED <<chatVars, chunkVars, dbVars, searchVars, nextId, azurePending, seen>>

\* processDocumentForRag 108-120 / triggerOcr 205-239: the OCR text is there
\* (extracted and saved now, or stored earlier), chunkDocument is called and
\* its chunkRepo.find (123-135) answered
ocrFinish(p) ==
    /\ cd[p].pc = "ocr"
    /\ Responsive
    /\ LET old == RowIds(RowsOfDoc(cd[p].documentId))
       IN  cd' = [cd EXCEPT ![p] =
                    Returned([@ EXCEPT !.pc = IF old # {} THEN "delete"
                                              ELSE AfterChunkText(cd[p].ocrText),
                                       !.oldIds = old])]
    /\ UNCHANGED <<chatVars, chunkVars, dbVars, searchVars, cdCalls, nextId, azurePending, seen>>

\* chunkRepo.delete (137) or chunkRepo.save (160) rejects, and with it
\* chunkDocument
cdReject(p) ==
    /\ cd[p].pc \in {"delete", "save"}
    /\ Responsive
    /\ cd' = [cd EXCEPT ![p] = Rejected(@)]
    /\ UNCHANGED <<chatVars, chunkVars, dbVars, searchVars, cdCalls, nextId, azurePending, seen>>

IngestNext ==
    \/ \E d \in {"d1", "d2"}, k \in TextIxs : uploadRequest("p1", d, k)
    \/ \E d \in {"d1", "d2"}, k \in TextIxs : ocrRequest("p1", d, k)
    \/ ocrFinish("p1")
    \/ cdDelete("p1")
    \/ cdSave("p1")
    \/ cdReject("p1")
    \/ \E c \in azurePending : azureCallDone(c)
    \/ \E c \in azurePending : azureCallFail(c)

SpecIngest == IngestInit /\ [][IngestNext]_vars

\* C16: an upload has its response as soon as the document is stored,
\* before chunking has finished, and an upload or OCR request whose chunking
\* or indexing failed still ends with a successful response
C16_IngestFailureLogged ==
    \A p \in Procs :
        /\ cd[p].via = "upload" => cd[p].response = "ok"
        /\ (cd[p].via = "ocr" /\ cd[p].pc = "done") => cd[p].response = "ok"

\* ------------------------------------------------------------------------
\* The system prompt of a first turn (LlmController.buildSystemPrompt) and
\* the retrieval it makes through RagService.search
\* ------------------------------------------------------------------------
\* question.question_text: one usable search word
QuestionText == <<"a", "a", "a">>

\* the topK buildSystemPrompt passes to ragService.search
PromptTopK == 5

\* dto.includeDocuments: absent, true or false
IncludeArgs == {"unset", "true", "false"}

\* dto.documentIds: absent, or the ids of one document of the dossier
PromptDocIds == {NoDocIds, [given |-> TRUE, ids |-> {"d1"}]}

\* the request body of the first turn
PromptArgs == {<<"blocking", "openai/gpt-4o", FALSE>>}

PromptInit ==
    /\ ChunkIdle
    /\ StoreIdle
    /\ SearchIdle
    /\ documents = SearchDocuments
    /\ chunkRows = SearchRows
    /\ azureConfigured \in BOOLEAN
    /\ azureIndex \in IF azureConfigured THEN {{}, {IndexDoc(r) : r \in SearchRows}} ELSE {{}}
    /\ messages = OtherHistory
    /\ responseText = [q \in Questions |-> InitialResponse]
    /\ settings = ServerSettings
    /\ turn = [t \in Turns |-> IdleTurn]
    /\ turnsStarted = 0
    /\ clears = 0

\* buildSystemPrompt 274-340: the parts before the excerpts are assembled;
\* when dto.includeDocuments is not false, ragService.search(question_text,
\* dossierId, 5) is called - with no fourth argument
buildPromptStart(t, incl, ids) ==
    /\ turn[t].pc = "system"
    /\ spc = "idle"
    /\ turn' = [turn EXCEPT ![t].includeDocuments = incl, ![t].documentIds = ids,
                            ![t].retrieved = (incl # "false"),
                            ![t].pc = IF incl # "false" THEN "retrieve" ELSE "built"]
    /\ IF incl # "false"
       THEN /\ spc' = "start"
            /\ sQuery' = QuestionText
            /\ sDossier' = "A"
            /\ sTopK' = PromptTopK
            /\ sDocIds' = NoDocIds
       ELSE UNCHANGED <<spc, sQuery, sDossier, sTopK, sDocIds>>
    /\ UNCHANGED <<chunkVars, dbVars, storeVars, messages, responseText, settings,
                   turnsStarted, clears, sQueried, sAzureOutcome, sAzureRes, ftsRank,
                   trgmSim, sPrimary, sFallback, sResult, sError>>

\* the document a search result comes from ([Source: filename] of its excerpt)
SourceOf(res) == CHOOSE d \in OriginDocs(res.id) : TRUE

\* buildSystemPrompt 342-360: one excerpt per search result, in order
buildPromptFinish(t) ==
    /\ turn[t].pc = "retrieve"
    /\ spc = "done"
    /\ turn' = [turn EXCEPT ![t].pc = "built",
                            ![t].excerpts = [k \in 1..Len(sResult) |-> SourceOf(sResult[k])]]
    /\ UNCHANGED <<chunkVars, dbVars, searchVars, storeVars, messages, responseText,
                   settings, turnsStarted, clears>>

\* chat 106-112 / chatStream 186-192: the prompt, excerpts included, is saved
chatSavePrompt(t) ==
    /\ turn[t].pc = "built"
    /\ messages' = saveMessage(t, "system", SystemPrompt \o turn[t].excerpts)
    /\ turn' = [turn EXCEPT ![t].pc = "user"]
    /\ UNCHANGED <<chunkVars, dbVars, searchVars, storeVars, responseText, settings,
                   turnsStarted, clears>>

PromptNext ==
    \/ \E args \in PromptArgs, q \in TurnQuestions : chatLoad("t1", args, q)
    \/ \E incl \in IncludeArgs, ids \in PromptDocIds : buildPromptStart("t1", incl, ids)
    \/ searchDispatch
    \/ azureSearchOk
    \/ azureSearchFail
    \/ searchPostgresFullText
    \/ searchPostgresTrigram
    \/ searchPostgresTrigramFail
    \/ buildPromptFinish("t1")
    \/ chatSavePrompt("t1")

SpecPrompt == PromptInit /\ [][PromptNext]_vars

\* C17: when the options of a first turn carry documentIds, the retrieval
\* for the system prompt is made, whatever includeDocuments says, and every
\* excerpt of the prompt comes from a listed document
C17_PromptDocumentFilter ==
    \A t \in Turns :
        (turn[t].pc \in {"built", "user"} /\ turn[t].documentIds.given) =>
            /\ turn[t].retrieved
            /\ \A k \in 1..Len(turn[t].excerpts) :
                  turn[t].excerpts[k] \in turn[t].documentIds.ids

\* ------------------------------------------------------------------------
\* Document deletion (DocumentService.remove) followed by a search
\* ------------------------------------------------------------------------
DeleteInit ==
    /\ ChatIdle
    /\ ChunkIdle
    /\ StoreIdle
    /\ SearchIdle
    /\ documents = SearchDocuments
    /\ chunkRows = SearchRows
    /\ azureConfigured \in BOOLEAN
    /\ azureIndex = IF azureConfigured THEN {IndexDoc(r) : r \in SearchRows} ELSE {}

\* DocumentService.remove 79-86: docRepo.remove(doc) deletes the row and,
\* through the foreign key of document_chunks (onDelete: 'CASCADE'), its
\* chunks; azureSearch is not called
documentRemove(d) ==
    /\ spc = "idle"
    /\ \E doc \in documents : doc.id = d
    /\ documents' = {doc \in documents : doc.id # d}
    /\ chunkRows' = {r \in chunkRows : r.document_id # d}
    /\ UNCHANGED <<chatVars, chunkVars, searchVars, storeVars, azureIndex, azureConfigured>>

\* a call search(query, dossierId, topK, documentIds?) arrives
searchCall(q, k, ids) ==
    /\ spc = "idle"
    /\ spc' = "start"
    /\ sQuery' = q
    /\ sDossier' = "A"
    /\ sTopK' = k
    /\ sDocIds' = ids
    /\ UNCHANGED <<chatVars, chunkVars, dbVars, storeVars, sQueried, sAzureOutcome, sAzureRes,
                   ftsRank, trgmSim, sPrimary, sFallback, sResult, sError>>

DeleteNext ==
    \/ \E d \in {"d1", "d2", "d3"} : documentRemove(d)
    \/ \E k \in 1..MaxTopK, ids \in DocIdArgs : searchCall(QuestionText, k, ids)
    \/ searchDispatch
    \/ azureSearchOk
    \/ azureSearchFail
    \/ searchPostgresFullText
    \/ searchPostgresTrigram
    \/ searchPostgresTrigramFail

SpecDelete == DeleteInit /\ [][DeleteNext]_vars

\* the documents deleted so far
DeletedDocs == {doc.id : doc \in SearchDocuments \ documents}

\* C18: a search made after a document was deleted returns no result that
\* originates from the deleted document, on any path
C18_DeletedDocumentGone ==
    spc = "done" =>
        \A k \in 1..Len(sResult) :
            \A r \in SearchRows : r.id = sResult[k].id => r.document_id \notin DeletedDocs

\* ------------------------------------------------------------------------
\* Conversation history: clear and append
\* ------------------------------------------------------------------------
\* C19: a clear of question q leaves getMessages(q) empty in the state right
\* after it, leaves every question's response_text as it was, and leaves the
\* messages of every other question as they were
C19_ClearFrame ==
    [][\A q \in Questions :
           clearMessages(q) =>
               /\ getMessages(q)' = <<>>
               /\ responseText' = responseText
               /\ \A o \in Questions \ {q} : getMessages(o)' = getMessages(o)]_vars

\* a clear of q1 ran after an answer was auto-applied to q1, with the history
\* of q2 present
C19_Witness ==
    /\ clears = 1
    /\ turn["t1"].applied
    /\ getMessages("q1") = <<>>
    /\ responseText["q1"] # InitialResponse
    /\ getMessages("q2") = OtherHistory

\* C20: every step that is not a clear either leaves the table as it was or
\* adds one row after all the others: the new message is the last element of
\* its question's history, the earlier messages of that question and the
\* histories of the other questions are unchanged
C20_AppendOnly ==
    [][clears' = clears =>
           \/ messages' = messages
           \/ /\ Len(messages') = Len(messages) + 1
              /\ SubSeq(messages', 1, Len(messages)) = messages
              /\ \E q \in Questions :
                     /\ messages'[Len(messages')].question_id = q
                     /\ getMessages(q)' = Append(getMessages(q), messages'[Len(messages')])
                     /\ \A o \in Questions \ {q} : getMessages(o)' = getMessages(o)]_vars

\* the request has appended its system, user and assistant messages to q1,
\* after the history of q2
C20_Witness ==
    /\ clears = 0
    /\ AssistantOf("t1") # {}
    /\ RolesOf("q1") = <<"system", "user", "assistant">>
    /\ SubSeq(messages, 1, Len(OtherHistory)) = OtherHistory

\* ------------------------------------------------------------------------
\* Two chat requests on one question, the second after the first has ended
\* ------------------------------------------------------------------------
SeqNext ==
    \/ \E args \in ChatArgs, q \in TurnQuestions : chatLoad("t1", args, q)
    \/ TurnStep("t1")
    \/ \E args \in ChatArgs, q \in TurnQuestions :
           turn["t1"].pc = "done" /\ chatLoad("t2", args, q)
    \/ TurnStep("t2")
    \/ \E q \in Questions : clearMessages(q)

SpecSeq == ChatInit /\ [][SeqNext]_vars

\* the system messages stored for question q
SystemOf(q) == {i \in 1..Len(getMessages(q)) : getMessages(q)[i].role = "system"}

\* C21: a request whose history load found a message never reaches the
\* system prompt step and no system message of it is stored; after two
\* requests run one after the other, the second having found the first's
\* messages, the question has exactly one system message
C21_NoSecondSystem ==
    /\ \A t \in Turns :
           turn[t].loaded > 0 =>
               /\ turn[t].pc # "system"
               /\ \A i \in 1..Len(messages) :
                      messages[i].turn = t => messages[i].role # "system"
    /\ (turn["t1"].pc = "done" /\ turn["t2"].pc = "done" /\ turn["t2"].loaded > 0
            /\ clears = 0) =>
           Cardinality(SystemOf("q1")) = 1

\* the second request found the first's messages and has ended
C21_Witness ==
    /\ turn["t1"].pc = "done"
    /\ turn["t2"].pc = "done"
    /\ turn["t2"].loaded > 0
    /\ clears = 0
    /\ AssistantOf("t2") # {}
    /\ Cardinality(SystemOf("q1")) = 1

\* ------------------------------------------------------------------------
\* Re-chunking
\* ------------------------------------------------------------------------
\* C22: chunkText reads nothing but its arguments, so it is the function
\* ChunksOf of the text; when chunkDocument runs come one after the other,
\* a run that has returned leaves for its document exactly one copy of the
\* chunk list of its text (same count, contents and offsets) under ids that
\* are not those of the rows it replaced
C22_RechunkIdempotent ==
    \A p \in Procs :
        cd[p].pc = "done" =>
            LET rows == RowsOfDoc(cd[p].documentId)
                cs == ChunksOf[cd[p].ocrText].chunks
            IN  /\ RowSpans(rows) = SpanSet(cs)
                /\ Cardinality(rows) = Len(cs)
                /\ RowIds(rows) \cap cd[p].oldIds = {}

\* a second run on d1 with the text of several chunks has returned; the rows
\* it replaced were the chunks of a first run with that text
C22_Witness ==
    /\ cdCalls = 2
    /\ cd["p1"].pc = "done"
    /\ cd["p1"].documentId = "d1"
    /\ cd["p1"].ocrText = 2
    /\ Cardinality(cd["p1"].oldIds) > 1
    /\ Cardinality(cd["p1"].oldIds) = Cardinality(RowsOfDoc("d1"))

\* ------------------------------------------------------------------------
\* Order of the steps of a chat request
\* ------------------------------------------------------------------------
\* the message request t stores with a role and a content
MessageOf(t, role, content) ==
    [question_id |-> turn[t].questionId, role |-> role, content |-> content, turn |-> t]

\* C23: in a blocking or streaming request the system message is appended
\* only by a request that loaded an empty history and before its user
\* message, the user message before the provider call, the provider is
\* called on the history reloaded after the user message, the assistant
\* message is appended only after the provider completed (the stream ended),
\* and response_text is written only with autoApplyToResponse, in the step
\* that follows the append of the assistant message
C23_StepOrder ==
    [][\A t \in Turns :
          /\ turn'[t].pc = "user" /\ turn[t].pc # "user" =>
                \/ turn[t].pc = "idle" /\ turn'[t].loaded > 0 /\ messages' = messages
                \/ /\ turn[t].pc = "system" /\ turn[t].loaded = 0
                   /\ messages' = Append(messages, MessageOf(t, "system", SystemPrompt))
          /\ turn'[t].pc = "reload" /\ turn[t].pc # "reload" =>
                /\ turn[t].pc = "user"
                /\ messages' = Append(messages, MessageOf(t, "user", UserMessage))
          /\ turn'[t].calls # turn[t].calls =>
                /\ turn[t].pc = "reload" /\ turn[t].calls = 0 /\ turn'[t].calls = 1
                /\ turn'[t].sent = getMessages(turn[t].questionId)
                /\ turn'[t].pc = "provider"
          /\ turn'[t].pc = "provider" => turn'[t].calls = 1
          /\ turn'[t].pc = "saveAssistant" => turn'[t].completed /\ turn'[t].calls = 1
          /\ (messages' # messages /\ clears' = clears /\ turn'[t] # turn[t]) =>
                \/ turn[t].pc \in {"system", "user"}
                \/ /\ turn[t].pc = "saveAssistant"
                   /\ messages' = Append(messages, MessageOf(t, "assistant", turn[t].full))
          /\ turn'[t].pc = "apply" /\ turn[t].pc # "apply" =>
                turn[t].pc = "saveAssistant" /\ turn[t].autoApply /\ messages' # messages
          /\ (responseText' # responseText \/ turn'[t].applied # turn[t].applied) =>
                \E u \in Turns : turn[u].pc = "apply" /\ turn[u].autoApply
                                 /\ turn'[u].pc = "done" /\ turn'[u].applied]_vars

\* a streaming request on an empty history has gone through all five steps
C23_Witness ==
    /\ turn["t1"].pc = "done" /\ turn["t1"].mode = "stream"
    /\ turn["t1"].loaded = 0 /\ turn["t1"].applied
    /\ getMessages("q1") = <<MessageOf("t1", "system", SystemPrompt),
                             MessageOf("t1", "user", UserMessage),
                             MessageOf("t1", "assistant", <<"y", "x">>)>>
    /\ turn["t1"].sent = SubSeq(getMessages("q1"), 1, 2)
    /\ responseText["q1"] = <<"y", "x">>

\* ------------------------------------------------------------------------
\* Concurrent chat requests on one question
\* ------------------------------------------------------------------------
\* C24: once every chat request on a question has ended, all of them with
\* autoApplyToResponse and completed, and nothing else wrote response_text
\* or cleared the history, response_text is the content of the last
\* assistant message of the question's history
C24_ResponseIsLastAssistant ==
    (/\ clears = 0
     /\ \A t \in Turns : turn[t].pc = "done" /\ turn[t].autoApply /\ turn[t].applied) =>
        LET h == getMessages("q1")
        IN  /\ h # <<>>
            /\ h[Len(h)].role = "assistant"
            /\ responseText["q1"] = h[Len(h)].content

\* the messages of list h stored by request t with role user
UserOf(h, t) == {i \in 1..Len(h) : h[i].role = "user" /\ h[i].turn = t}

\* C28: the history a request hands to the provider ends with the user
\* message that request appended, and holds no user message of another
\* request whose assistant reply is not stored yet
C28_SentEndsWithOwnUser ==
    \A t \in Turns :
        (turn[t].pc = "provider" /\ clears = 0) =>
            LET h == turn[t].sent
            IN  /\ h # <<>>
                /\ h[Len(h)].role = "user" /\ h[Len(h)].turn = t
                /\ \A u \in Turns \ {t} :
                       UserOf(h, u) # {} =>
                           \E i \in 1..Len(h) : h[i].role = "assistant" /\ h[i].turn = u

OriginDossiers(id) ==
    {r.dossier_id : r \in {x \in chunkRows : x.id = id}}
        \cup {d.dossier_id : d \in {x \in azureIndex : x.chunk_id = id}}

\* C30: every result a search returns is a chunk of the dossier searched,
\* whether it came from the Azure index, the full-text stage or the trigram
\* stage, and also when documentIds names a document of another dossier
C30_DossierScope ==
    spc = "done" =>
        \A k \in 1..Len(sResult) : OriginDossiers(sResult[k].id) = {sDossier}

\* a search of dossier A restricted to d3, a document of dossier B, ran both
\* local stages and returned nothing
C30_Witness ==
    /\ spc = "done"
    /\ sDossier = "A"
    /\ sDocIds = [given |-> TRUE, ids |-> {"d3"}]
    /\ {"fts", "trgm"} \subseteq sQueried
    /\ sResult = <<>>

\* ------------------------------------------------------------------------
\* Size of the chunks
\* ------------------------------------------------------------------------
\* C26: every chunk pushed spans at most maxChars characters of the
\* normalized text and its content has at most maxChars characters,
\* whichever rule chose its end
C26_ChunkSpanBounded ==
    \A k \in 1..Len(chunks) :
        /\ chunks[k].endChar - chunks[k].startChar <= maxChars
        /\ Len(chunks[k].content) <= maxChars

\* ------------------------------------------------------------------------
\* chunkDocument runs that overlap (upload's background processing and a
\* manual OCR trigger on the same document)
\* ------------------------------------------------------------------------
RaceNext ==
    \/ \E p \in Procs, k \in TextIxs : cdFind(p, "d1", k)
    \/ \E p \in Procs : cdDelete(p)
    \/ \E p \in Procs : cdSave(p)

SpecRace == StoreInit /\ [][RaceNext]_vars

\* no chunkDocument run is in progress or stuck
AllReturned == \A p \in Procs : cd[p].pc \in {"idle", "done"}

\* C25: when every chunkDocument run on a document has returned, the rows of
\* the document are the chunk list of one of the texts chunked, once, never
\* the chunks of two runs together
C25_OneRunsChunks ==
    (AllReturned /\ cdCalls > 0) =>
        \E k \in TextIxs :
            /\ RowSpans(RowsOfDoc("d1")) = SpanSet(ChunksOf[k].chunks)
            /\ Cardinality(RowsOfDoc("d1")) = Len(ChunksOf[k].chunks)

\* ------------------------------------------------------------------------
\* The Azure index after chunkDocument runs, no backend call failing
\* ------------------------------------------------------------------------
IndexInit == StoreInit /\ azureConfigured

IndexNext ==
    \/ \E k \in TextIxs : cdFind("p1", "d1", k)
    \/ cdDelete("p1")
    \/ cdSave("p1")
    \/ \E c \in azurePending : azureCallDone(c)

SpecIndex == IndexInit /\ [][IndexNext]_vars

\* the chunk ids the index holds for document d
IndexedIds(d) == {x.chunk_id : x \in {y \in azureIndex : y.document_id = d}}

\* C27: once the runs have returned and every index and delete call they
\* fired has completed, the index holds for the document the chunk ids the
\* table holds for it
C27_IndexMatchesStore ==
    (AllReturned /\ azurePending = {}) => IndexedIds("d1") = RowIds(RowsOfDoc("d1"))

====
